---- MODULE Spec2Model ----
(***************************************************************************)
(* A model of the google-redirector gateway (src/main.go): the WebSocket   *)
(* tunnel handler handleWebSocket, the upstream handshake                  *)
(* dialBackendWebSocket, the response synthesizer writeSwitchingProtocols, *)
(* the relay task pipe and the upgrade detector isWebSocketRequest.        *)
(*                                                                         *)
(* A string is a sequence of one-character strings.  What travels on a     *)
(* connection is a sequence of elements: a payload byte (a one-character   *)
(* string), a byte that is no character under its hex name ("0x88"), or    *)
(* the text of one handshake message as one string.                        *)
(***************************************************************************)
EXTENDS Integers, Sequences, FiniteSets, TLC

VARIABLES target, verificationHeader, tun, conn, fn

vars == <<target, verificationHeader, tun, conn, fn>>

----------------------------------------------------------------------------
(* Strings *)

Chars(s) == [i \in 1..Len(s) |-> SubSeq(s, i, i)]

\* the characters of s, joined into one string
RECURSIVE Text(_)
Text(s) ==
    IF Len(s) = 0 THEN ""
    ELSE IF Len(s) = 1 THEN s[1]
    ELSE LET m == Len(s) \div 2
         IN  Text(SubSeq(s, 1, m)) \o Text(SubSeq(s, m + 1, Len(s)))

Upper == Chars("ABCDEFGHIJKLMNOPQRSTUVWXYZ")

Lower == Chars("abcdefghijklmnopqrstuvwxyz")

ToLowerChar(c) ==
    IF \E i \in 1..Len(Upper) : Upper[i] = c
    THEN Lower[CHOOSE i \in 1..Len(Upper) : Upper[i] = c]
    ELSE c

\* strings.ToLower
ToLower(s) == [i \in 1..Len(s) |-> ToLowerChar(s[i])]

\* strings.Contains: substr occurs in s as a contiguous run (the empty
\* string occurs in every string)
Contains(s, substr) ==
    \E i \in 0..(Len(s) - Len(substr)) : SubSeq(s, i + 1, i + Len(substr)) = substr

\* http.Header.Get: the first value stored under the key, "" when there is
\* none.  A header field is the sequence of the values of its lines.
HeaderGet(values) == IF values = <<>> THEN <<>> ELSE values[1]

CRLF == <<"\r", "\n">>

----------------------------------------------------------------------------
(* Bounds and data *)

\* the number of payload bytes each peer may send on one connection
MaxData == 2

\* the same, for a request that enters through the handler of main
MaxDataServe == 1

\* the same, for the first of two requests that are in flight together
\* (the second carries no payload)
MaxDataTwo == 1

Tunnels == {"t1", "t2"}

ConnIds == 1..(2 * Cardinality(Tunnels))

NoConn == 0

Dirs == {"c2b", "b2c"}

\* the payload a client sends behind its upgrade request, byte by byte
ClientData == Chars("abcdefgh")

\* the payload the upstream sends behind its 101 response
UpstreamData == Chars("stuvwxyz")

\* main.go:262
CloseFrame == <<"0x88", "0x02", "0x03", "0xe8">>

\* the caller's upgrade request, as handleWebSocket reads it
ClientRequest == [proto |-> <<Chars("chat, superchat")>>]

\* the header fields of an inbound request that main.go reads on its way to
\* one of the two paths; "X-Verify" stands for the header VERIFICATION_HEADER names
HeaderNames == {"X-Verify", "Upgrade", "Connection"}

\* main.go:21: VERIFICATION_HEADER, "" when unset
VerificationHeaders == {"", "X-Verify"}

\* an upgrade request
UpgradeHeader ==
    [h \in HeaderNames |->
        CASE h = "Upgrade" -> <<Chars("websocket")>>
          [] h = "Connection" -> <<Chars("Upgrade")>>
          [] OTHER -> <<>>]

\* the inbound requests of the whole server
InboundHeaders ==
    { [h \in HeaderNames |->
          CASE h = "Upgrade" -> u [] h = "Connection" -> c [] OTHER -> v] :
        u \in { <<>>, <<Chars("websocket")>>, <<Chars("h2c")>> },
        c \in { <<>>, <<Chars("Upgrade")>>, <<Chars("keep-alive")>> },
        v \in { <<>>, << <<>> >>, <<Chars("1")>> } }

\* what the reverse proxy answers: the upstream's status, or the 502 of its
\* error handler (main.go:43-47)
ProxyStatuses == {200, 404, 502}

NoResponse == [status |-> 0, accept |-> <<>>, proto |-> <<>>]

\* what an upstream may answer to the synthetic upgrade request
UpstreamResponses ==
    { [status |-> 101, accept |-> <<Chars("tok=")>>, proto |-> <<Chars("chat")>>],
      [status |-> 101, accept |-> <<>>, proto |-> <<>>],
      [status |-> 101, accept |-> << <<>> >>, proto |-> <<Chars("chat")>>],
      [status |-> 404, accept |-> <<>>, proto |-> <<>>] }

----------------------------------------------------------------------------
(* Pure functions of main.go *)

\* main.go:84-87
isWebSocketRequest(upgrade, connection) ==
    /\ ToLower(HeaderGet(upgrade)) = Chars("websocket")
    /\ Contains(ToLower(HeaderGet(connection)), Chars("upgrade"))

GateRejectsNever(name, header) == FALSE

\* main.go:52-53: the access gate
GateRejects(name, header) == name # "" /\ HeaderGet(header[name]) = <<>>

\* main.go:99-101: the scheme of the backend WebSocket URL
BackendScheme(targetScheme) == IF targetScheme = "https" THEN "wss" ELSE "ws"

\* the character a percent-escape of a request path stands for
Octet(hex) ==
    CASE hex = Chars("2F") -> "/"
      [] hex = Chars("20") -> " "
      [] hex = Chars("61") -> "a"

\* net/url, as the server applies it to the request target: r.URL.Path is
\* the path with its percent-escapes decoded
RECURSIVE PathUnescape(_)
PathUnescape(s) ==
    IF s = <<>> THEN <<>>
    ELSE IF s[1] = "%"
         THEN <<Octet(SubSeq(s, 2, 3))>> \o PathUnescape(SubSeq(s, 4, Len(s)))
         ELSE <<s[1]>> \o PathUnescape(Tail(s))

\* the URL the server hands to the handler for a request target
ParseRequestURI(path, query) == [Path |-> PathUnescape(path), RawQuery |-> query]

\* net/url, as req.Write applies it to a URL without RawPath: the path with
\* the characters escaped that a path cannot hold ("/" is not one of them)
RECURSIVE PathEscape(_)
PathEscape(s) ==
    IF s = <<>> THEN <<>>
    ELSE (CASE s[1] = " " -> Chars("%20")
            [] s[1] = "%" -> Chars("%25")
            [] OTHER -> <<s[1]>>) \o PathEscape(Tail(s))

\* main.go:93-101
BackendURL(targetScheme, targetHost, r) ==
    [ Scheme |-> BackendScheme(targetScheme),
      Host |-> targetHost,
      Path |-> r.URL.Path,
      RawQuery |-> r.URL.RawQuery ]

\* main.go:149-156: the address given to net.DialTimeout
DialAddress(u) ==
    IF ~Contains(u.Host, <<":">>)
    THEN u.Host \o (IF u.Scheme = "wss" THEN Chars(":443") ELSE Chars(":80"))
    ELSE u.Host

\* the header fields of the synthetic upgrade request
RequestHeaderNames ==
    { "Connection", "Upgrade", "Sec-WebSocket-Version", "Sec-WebSocket-Key",
      "Sec-WebSocket-Protocol", "Sec-WebSocket-Extensions", "Authorization" }

\* the header fields handed on from the inbound request only when it has them
OptionalHeaderNames ==
    { "Sec-WebSocket-Protocol", "Sec-WebSocket-Extensions", "Authorization" }

\* main.go:181-201: req.Header; Set stores one value under the name
UpgradeRequestHeader(r) ==
    [h \in RequestHeaderNames |->
        CASE h = "Connection" -> <<Chars("Upgrade")>>
          [] h = "Upgrade" -> <<Chars("websocket")>>
          [] h \in OptionalHeaderNames ->
                IF HeaderGet(r.Header[h]) # <<>> THEN <<HeaderGet(r.Header[h])>> ELSE <<>>
          [] OTHER -> <<HeaderGet(r.Header[h])>>]

\* (*url.URL).RequestURI, which req.Write puts on the request line
RequestURI(u) ==
    (IF u.Path = <<>> THEN <<"/">> ELSE PathEscape(u.Path))
    \o (IF u.RawQuery # <<>> THEN <<"?">> \o u.RawQuery ELSE <<>>)

\* main.go:178-207: the request req.Write sends to the upstream
UpgradeRequest(u, r) ==
    [ Method |-> "GET",
      URI |-> RequestURI(u),
      Host |-> u.Host,
      Header |-> UpgradeRequestHeader(r) ]

\* main.go:216
StatusAcceptedAny(resp) == TRUE

StatusAccepted(resp) == resp.status = 101

\* main.go:225-228
MissingAcceptNever(backendResp) == FALSE

MissingAccept(backendResp) == HeaderGet(backendResp.accept) = <<>>

\* main.go:236-238
ForwardProtocol(clientReq, backendResp) ==
    LET proto == HeaderGet(clientReq.proto)
        backendProto == HeaderGet(backendResp.proto)
    IN  /\ proto # <<>>
        /\ backendProto # <<>>
        /\ Contains(proto, backendProto)

SwitchingProtocolsResponseUnterminated(clientReq, backendResp) ==
    Chars("HTTP/1.1 101 Switching Protocols") \o CRLF
    \o Chars("Upgrade: websocket") \o CRLF
    \o Chars("Connection: Upgrade") \o CRLF
    \o Chars("Sec-WebSocket-Accept: ") \o HeaderGet(backendResp.accept) \o CRLF

\* main.go:230-243: the bytes writeSwitchingProtocols writes
SwitchingProtocolsResponse(clientReq, backendResp) ==
    Chars("HTTP/1.1 101 Switching Protocols") \o CRLF
    \o Chars("Upgrade: websocket") \o CRLF
    \o Chars("Connection: Upgrade") \o CRLF
    \o Chars("Sec-WebSocket-Accept: ") \o HeaderGet(backendResp.accept) \o CRLF
    \o (IF ForwardProtocol(clientReq, backendResp)
        THEN Chars("Sec-WebSocket-Protocol: ") \o HeaderGet(backendResp.proto) \o CRLF
        ELSE <<>>)
    \o CRLF

\* main.go:230-245: what goes on the client connection in one Write, for each
\* answer the upstream can give to the request the clients of this model send
SwitchingProtocolsText ==
    [r \in UpstreamResponses |-> Text(SwitchingProtocolsResponse(ClientRequest, r))]

\* main.go:109
StatusBadGateway == 502

\* main.go:118
StatusInternalServerError == 500

----------------------------------------------------------------------------
(* State *)

NoTasks == [d \in Dirs |-> "none"]

\* one inbound request: the locals of handleWebSocket and of its two pipe
\* tasks, and what the HTTP layer answered
TunnelInit(cc, q, p) ==
    [ pc |-> p,                  \* where the handler stands
      header |-> UpgradeHeader,  \* r.Header
      route |-> "",              \* the path main.go:52-64 took
      proxied |-> 0,             \* calls of proxy.ServeHTTP
      quota |-> q,               \* payload bytes each peer will send
      clientConn |-> cc,         \* the inbound connection
      srvBuf |-> <<>>,           \* bytes held by the server's buffered reader
      backendScheme |-> "",      \* backendURL.Scheme
      dialConn |-> NoConn,       \* conn inside dialBackendWebSocket
      dials |-> 0,               \* calls of net.DialTimeout
      respBuf |-> <<>>,          \* bytes held by the reader of main.go:210
      dialErr |-> "",            \* why dialBackendWebSocket failed
      backendConn |-> NoConn,    \* backendConn of handleWebSocket
      backendResp |-> NoResponse,
      httpStatus |-> 0,          \* the status written through w
      hijacked |-> FALSE,
      err |-> "",                \* the failure after the upstream handshake
      wg |-> 0,                  \* the WaitGroup counter
      tpc |-> NoTasks,           \* where each pipe task stands
      tbuf |-> [d \in Dirs |-> <<>>] ]   \* bytes read and not yet written

\* one transport connection, as the gateway and its peer see it
ConnInit ==
    [ kind |-> "none",           \* "tcp" (*net.TCPConn) or "tls" (*tls.Conn)
      inQ |-> <<>>,              \* bytes arrived from the peer, not yet read
      sent |-> 0,                \* payload bytes the peer has sent
      peerClosed |-> FALSE,      \* the peer closed: reads end after inQ
      out |-> <<>>,              \* bytes the gateway delivered to the peer
      ops |-> <<>>,              \* the calls made on the connection
      closed |-> FALSE,          \* Close was called
      wrClosed |-> FALSE,        \* CloseWrite was called
      upReq |-> FALSE,           \* the upstream got the upgrade request
      upResp |-> NoResponse ]    \* what the upstream answered

FnIdle == [op |-> "none"]

\* the requests in flight: each request of `active` on its own accepted
\* connection, with q[t] payload bytes to come from each peer of t, and
\* the scheme of BACKEND_URL (main.go:20-23) one of `schemes`
InitTunnels(active, q, schemes) ==
    /\ target \in schemes
    /\ tun = [t \in Tunnels |->
                IF t \in active
                THEN TunnelInit(IF t = "t1" THEN 1 ELSE 2, q[t], "Serve")
                ELSE TunnelInit(NoConn, 0, "NoRequest")]
    /\ conn = [c \in ConnIds |->
                IF \E t \in active : c = (IF t = "t1" THEN 1 ELSE 2)
                THEN [ConnInit EXCEPT !.kind = "tcp"]
                ELSE ConnInit]

Init ==
    /\ InitTunnels({"t1"}, [t \in Tunnels |-> MaxData], {"http", "https"})
    /\ verificationHeader = ""
    /\ fn = FnIdle

\* two requests in flight, the backend being the default https one
InitTwo ==
    /\ InitTunnels(Tunnels, [t \in Tunnels |-> IF t = "t1" THEN MaxDataTwo ELSE 0],
                   {"https"})
    /\ verificationHeader = ""
    /\ fn = FnIdle

DstBackend(t, d) == tun[t].backendConn

\* main.go:141-142: pipe(backendConn, clientConn) and pipe(clientConn, backendConn)
Dst(t, d) == IF d = "c2b" THEN tun[t].backendConn ELSE tun[t].clientConn

Src(t, d) == IF d = "c2b" THEN tun[t].clientConn ELSE tun[t].backendConn

----------------------------------------------------------------------------
(* Calls on a connection: each gives the new value of conn *)

Op(by, name, data) == <<by, name, data>>

\* a write succeeds on an open connection; once the peer has closed or
\* reset it may fail; after Close or CloseWrite it fails
WriteOutcomes(c) ==
    IF conn[c].closed \/ conn[c].wrClosed THEN {FALSE}
    ELSE IF conn[c].peerClosed THEN {TRUE, FALSE}
    ELSE {TRUE}

Write(cn, c, by, data, ok) ==
    [cn EXCEPT ![c].ops = Append(@, Op(by, "Write", data)),
               ![c].out = IF ok THEN @ \o data ELSE @]

SetWriteDeadline(cn, c, by) ==
    [cn EXCEPT ![c].ops = Append(@, Op(by, "SetWriteDeadline", <<>>))]

CloseLeak(cn, c, by) == cn

Close(cn, c, by) ==
    [cn EXCEPT ![c].ops = Append(@, Op(by, "Close", <<>>)),
               ![c].closed = TRUE]

CloseWrite(cn, c, by) ==
    [cn EXCEPT ![c].ops = Append(@, Op(by, "CloseWrite", <<>>)),
               ![c].wrClosed = TRUE]

\* (*tls.Conn).Close: close_notify, then the transport is closed
TLSClose(cn, c, by) ==
    [cn EXCEPT ![c].ops = Append(@, Op(by, "TLSClose", <<>>)),
               ![c].closed = TRUE]

\* a read returns once the connection was closed here (an error), bytes
\* have arrived, or the peer has closed (end of stream)
ReadReady(c) == conn[c].closed \/ conn[c].inQ # <<>> \/ conn[c].peerClosed

----------------------------------------------------------------------------
(* handleWebSocket and dialBackendWebSocket, step by step *)

\* The server has read the request off the inbound connection through its
\* buffered reader, which holds whatever had arrived behind the request;
\* handleWebSocket starts and builds the backend URL (main.go:89-103).
EnterHandler(t) ==
    /\ tun[t].pc = "Serve"
    /\ tun' = [tun EXCEPT ![t].pc = "Dial",
                          ![t].srvBuf = conn[tun[t].clientConn].inQ,
                          ![t].backendScheme = BackendScheme(target)]
    /\ conn' = [conn EXCEPT ![tun[t].clientConn].inQ = <<>>]
    /\ UNCHANGED <<target, verificationHeader, fn>>

\* main.go:106-111: dialBackendWebSocket failed for reason `why`
DialFailedNoReply(tn, t, why) ==
    [tn EXCEPT ![t].pc = "Returned", ![t].dialErr = why]

DialFailedRetry(tn, t, why) ==
    [tn EXCEPT ![t].pc = IF tn[t].dials < 2 THEN "Dial" ELSE "Returned",
               ![t].dialErr = why,
               ![t].httpStatus = StatusBadGateway]

DialFailedFallback(tn, t, why) ==
    [tn EXCEPT ![t].pc = "Proxy", ![t].dialErr = why]

DialFailed(tn, t, why) ==
    [tn EXCEPT ![t].pc = "Returned",
               ![t].dialErr = why,
               ![t].httpStatus = StatusBadGateway]

PooledConn(t) ==
    IF \E c \in ConnIds : c > Cardinality(Tunnels) /\ conn[c].kind # "none"
    THEN CHOOSE c \in ConnIds : c > Cardinality(Tunnels) /\ conn[c].kind # "none"
    ELSE tun[t].clientConn + Cardinality(Tunnels)

\* main.go:159: net.DialTimeout opens a connection of its own for the call,
\* one that no other request holds
FreshConn(t) == tun[t].clientConn + Cardinality(Tunnels)

\* main.go:158-162
Dial(t) ==
    /\ tun[t].pc = "Dial"
    /\ \E ok \in BOOLEAN :
        IF ok
        THEN /\ conn' = [conn EXCEPT ![FreshConn(t)].kind = "tcp"]
             /\ tun' = [tun EXCEPT
                          ![t].dialConn = FreshConn(t),
                          ![t].dials = @ + 1,
                          ![t].pc = IF tun[t].backendScheme = "wss"
                                    THEN "TLS" ELSE "WriteReq"]
        ELSE /\ tun' = [DialFailed(tun, t, "dial") EXCEPT ![t].dials = @ + 1]
             /\ UNCHANGED conn
    /\ UNCHANGED <<target, verificationHeader, fn>>

\* main.go:164-175
TLSHandshake(t) ==
    /\ tun[t].pc = "TLS"
    /\ \E ok \in BOOLEAN :
        IF ok
        THEN /\ conn' = [conn EXCEPT ![tun[t].dialConn].kind = "tls"]
             /\ tun' = [tun EXCEPT ![t].pc = "WriteReq"]
        ELSE /\ conn' = Close(conn, tun[t].dialConn, "dial")
             /\ tun' = DialFailed(tun, t, "tls")
    /\ UNCHANGED <<target, verificationHeader, fn>>

\* main.go:177-207
WriteRequest(t) ==
    /\ tun[t].pc = "WriteReq"
    /\ \E ok \in BOOLEAN :
        IF ok
        THEN /\ conn' = [conn EXCEPT ![tun[t].dialConn].upReq = TRUE]
             /\ tun' = [tun EXCEPT ![t].pc = "ReadResp"]
        ELSE /\ conn' = Close(conn, tun[t].dialConn, "dial")
             /\ tun' = DialFailed(tun, t, "write")
    /\ UNCHANGED <<target, verificationHeader, fn>>

\* main.go:209-221: http.ReadResponse through a buffered reader of its own.
\* The reader takes what has arrived: the response and whatever the
\* upstream sent behind it; only the connection is returned.
ReadResponse(t) ==
    LET c == tun[t].dialConn IN
    /\ tun[t].pc = "ReadResp"
    /\ IF conn[c].upResp.status = 0
       THEN \* nothing to parse: the read ends when the upstream closes
            /\ conn[c].peerClosed
            /\ conn' = Close(conn, c, "dial")
            /\ tun' = DialFailed(tun, t, "read")
       ELSE IF ~StatusAccepted(conn[c].upResp)
       THEN /\ conn' = Close(conn, c, "dial")
            /\ tun' = DialFailed(tun, t, "status")
       ELSE /\ conn' = [conn EXCEPT ![c].inQ = <<>>]
            /\ tun' = [tun EXCEPT ![t].pc = "Established",
                                  ![t].respBuf = conn[c].inQ,
                                  ![t].backendConn = c,
                                  ![t].backendResp = conn[c].upResp]
    /\ UNCHANGED <<target, verificationHeader, fn>>

DeferredNothing(cn, t) == cn

DeferredBackendOnly(cn, t) == Close(cn, tun[t].backendConn, "handler")

\* the deferred calls of handleWebSocket, last registered first:
\* clientConn.Close (main.go:127) once hijacked, backendConn.Close (main.go:112)
Deferred(cn, t) ==
    LET c1 == IF tun[t].hijacked THEN Close(cn, tun[t].clientConn, "handler") ELSE cn
    IN  Close(c1, tun[t].backendConn, "handler")

\* main.go:114-127
Hijack(t) ==
    /\ tun[t].pc = "Established"
    /\ \E how \in {"ok", "unsupported", "error"} :
        IF how = "ok"
        THEN /\ tun' = [tun EXCEPT ![t].pc = "Hijacked", ![t].hijacked = TRUE]
             /\ UNCHANGED conn
        ELSE /\ tun' = [tun EXCEPT
                          ![t].pc = "Returned",
                          ![t].err = how,
                          ![t].httpStatus = IF how = "unsupported"
                                            THEN StatusInternalServerError ELSE @]
             /\ conn' = Deferred(conn, t)
    /\ UNCHANGED <<target, verificationHeader, fn>>

\* main.go:129-142: writeSwitchingProtocols, then the two pipe tasks start
SwitchProtocols(t) ==
    LET cc == tun[t].clientConn IN
    /\ tun[t].pc = "Hijacked"
    /\ IF MissingAccept(tun[t].backendResp)
       THEN /\ tun' = [tun EXCEPT ![t].pc = "Returned", ![t].err = "missing-accept"]
            /\ conn' = Deferred(conn, t)
       ELSE \E ok \in WriteOutcomes(cc) :
            LET resp == SwitchingProtocolsText[tun[t].backendResp]
                written == Write(conn, cc, "handler", <<resp>>, ok)
            IN  IF ok
                THEN /\ conn' = written
                     /\ tun' = [tun EXCEPT ![t].pc = "Relaying",
                                           ![t].wg = 2,
                                           ![t].tpc = [d \in Dirs |-> "read"]]
                ELSE /\ conn' = Deferred(written, t)
                     /\ tun' = [tun EXCEPT ![t].pc = "Returned", ![t].err = "write"]
    /\ UNCHANGED <<target, verificationHeader, fn>>

WaitAny(t) == tun[t].wg <= 1

\* main.go:144: wg.Wait returns when both tasks have called Done
WaitDone(t) == tun[t].wg = 0

\* main.go:144-145: the handler returns and its deferred calls run
WaitReturn(t) ==
    /\ tun[t].pc = "Relaying"
    /\ WaitDone(t)
    /\ tun' = [tun EXCEPT ![t].pc = "Returned"]
    /\ conn' = Deferred(conn, t)
    /\ UNCHANGED <<target, verificationHeader, fn>>

----------------------------------------------------------------------------
(* pipe *)

\* main.go:252: io.Copy reads the source
CopyRead(t, d) ==
    LET src == Src(t, d) IN
    /\ tun[t].tpc[d] = "read"
    /\ ReadReady(src)
    /\ IF ~conn[src].closed /\ conn[src].inQ # <<>>
       THEN /\ tun' = [tun EXCEPT ![t].tpc[d] = "write", ![t].tbuf[d] = conn[src].inQ]
            /\ conn' = [conn EXCEPT ![src].inQ = <<>>]
       ELSE \* an error, or the end of the stream: the copy is over
            /\ tun' = [tun EXCEPT ![t].tpc[d] = "frame"]
            /\ UNCHANGED conn
    /\ UNCHANGED <<target, verificationHeader, fn>>

\* main.go:252: io.Copy writes what it read to the destination
CopyWrite(t, d) ==
    LET dst == Dst(t, d) IN
    /\ tun[t].tpc[d] = "write"
    /\ \E ok \in WriteOutcomes(dst) :
        /\ conn' = Write(conn, dst, d, tun[t].tbuf[d], ok)
        /\ tun' = [tun EXCEPT ![t].tpc[d] = IF ok THEN "read" ELSE "frame",
                              ![t].tbuf[d] = <<>>]
    /\ UNCHANGED <<target, verificationHeader, fn>>

\* main.go:260-262: the close frame, under a write deadline, result ignored
SendCloseFrame(t, d) ==
    LET dst == Dst(t, d) IN
    /\ tun[t].tpc[d] = "frame"
    /\ \E ok \in WriteOutcomes(dst) :
        conn' = Write(SetWriteDeadline(conn, dst, d), dst, d, CloseFrame, ok)
    /\ tun' = [tun EXCEPT ![t].tpc[d] = "close"]
    /\ UNCHANGED <<target, verificationHeader, fn>>

TransportCloseHalfOnly(cn, c, by) == CloseWrite(cn, c, by)

TransportCloseNoTLS(cn, c, by) == Close(CloseWrite(cn, c, by), c, by)

\* main.go:264-273: tls.Conn.Close on a TLS connection, otherwise
\* CloseWrite and Close
TransportClose(cn, c, by) ==
    IF cn[c].kind = "tls"
    THEN TLSClose(cn, c, by)
    ELSE Close(CloseWrite(cn, c, by), c, by)

\* main.go:264-273, then the deferred wg.Done (main.go:250)
CloseDst(t, d) ==
    /\ tun[t].tpc[d] = "close"
    /\ conn' = TransportClose(conn, Dst(t, d), d)
    /\ tun' = [tun EXCEPT ![t].tpc[d] = "done", ![t].wg = @ - 1]
    /\ UNCHANGED <<target, verificationHeader, fn>>

----------------------------------------------------------------------------
(* The peers *)

\* the client sends its next payload byte
ClientSend(t) ==
    LET cc == tun[t].clientConn IN
    /\ tun[t].pc \notin {"NoRequest", "Returned"}
    /\ ~conn[cc].peerClosed /\ ~conn[cc].closed
    /\ conn[cc].sent < tun[t].quota
    /\ conn' = [conn EXCEPT ![cc].inQ = Append(@, ClientData[conn[cc].sent + 1]),
                            ![cc].sent = @ + 1]
    /\ UNCHANGED <<target, verificationHeader, tun, fn>>

\* the client closes (or resets) its connection
ClientClose(t) ==
    LET cc == tun[t].clientConn IN
    /\ tun[t].pc \notin {"NoRequest", "Returned"}
    /\ ~conn[cc].peerClosed /\ ~conn[cc].closed
    /\ conn' = [conn EXCEPT ![cc].peerClosed = TRUE]
    /\ UNCHANGED <<target, verificationHeader, tun, fn>>

\* the upstream answers the upgrade request
UpstreamRespond(t) ==
    LET c == tun[t].dialConn IN
    /\ c # NoConn
    /\ conn[c].upReq /\ conn[c].upResp.status = 0
    /\ ~conn[c].peerClosed /\ ~conn[c].closed
    /\ \E r \in UpstreamResponses : conn' = [conn EXCEPT ![c].upResp = r]
    /\ UNCHANGED <<target, verificationHeader, tun, fn>>

\* the upstream, having answered 101, sends its next payload byte
UpstreamSend(t) ==
    LET c == tun[t].dialConn IN
    /\ c # NoConn
    /\ conn[c].upResp.status = 101
    /\ ~conn[c].peerClosed /\ ~conn[c].closed
    /\ conn[c].sent < tun[t].quota
    /\ conn' = [conn EXCEPT ![c].inQ = Append(@, UpstreamData[conn[c].sent + 1]),
                            ![c].sent = @ + 1]
    /\ UNCHANGED <<target, verificationHeader, tun, fn>>

\* the upstream closes (or resets) its connection
UpstreamClose(t) ==
    LET c == tun[t].dialConn IN
    /\ c # NoConn
    /\ conn[c].upReq
    /\ ~conn[c].peerClosed /\ ~conn[c].closed
    /\ conn' = [conn EXCEPT ![c].peerClosed = TRUE]
    /\ UNCHANGED <<target, verificationHeader, tun, fn>>

----------------------------------------------------------------------------
(* Specifications *)

Handler(t) ==
    \/ EnterHandler(t) \/ Dial(t) \/ TLSHandshake(t) \/ WriteRequest(t)
    \/ ReadResponse(t) \/ Hijack(t) \/ SwitchProtocols(t) \/ WaitReturn(t)

Pipe(t, d) == CopyRead(t, d) \/ CopyWrite(t, d) \/ SendCloseFrame(t, d) \/ CloseDst(t, d)

Peers(t) ==
    \/ ClientSend(t) \/ ClientClose(t)
    \/ UpstreamRespond(t) \/ UpstreamSend(t) \/ UpstreamClose(t)

\* main.go:50-65: the handler of "/", up to the path it takes
ServeHTTP(t) ==
    /\ tun[t].pc = "Arrived"
    /\ IF GateRejects(verificationHeader, tun[t].header)
       THEN tun' = [tun EXCEPT ![t].pc = "Returned",
                               ![t].route = "rejected",
                               ![t].httpStatus = StatusBadGateway]
       ELSE IF isWebSocketRequest(tun[t].header["Upgrade"], tun[t].header["Connection"])
       THEN tun' = [tun EXCEPT ![t].pc = "Serve", ![t].route = "tunnel"]
       ELSE tun' = [tun EXCEPT ![t].pc = "Proxy", ![t].route = "proxy"]
    /\ UNCHANGED <<target, verificationHeader, conn, fn>>

\* main.go:63: proxy.ServeHTTP, the reverse proxy of net/http/httputil; of
\* what it does only its answer is kept
ProxyServeHTTP(t) ==
    /\ tun[t].pc = "Proxy"
    /\ \E st \in ProxyStatuses :
         tun' = [tun EXCEPT ![t].pc = "Returned",
                            ![t].proxied = @ + 1,
                            ![t].httpStatus = st]
    /\ UNCHANGED <<target, verificationHeader, conn, fn>>

\* a step of request t: of its handler, of one of its tasks, of one of its peers
Step(t) == Handler(t) \/ (\E d \in Dirs : Pipe(t, d)) \/ Peers(t)

Next == \E t \in Tunnels : Step(t)

\* one upgrade request in flight
Spec == Init /\ [][Next]_vars

\* one request of any kind arrives at the handler of main
InitServe ==
    /\ target \in {"http", "https"}
    /\ verificationHeader \in VerificationHeaders
    /\ \E h \in InboundHeaders :
         tun = [t \in Tunnels |->
                  IF t = "t1"
                  THEN [TunnelInit(1, MaxDataServe, "Arrived") EXCEPT !.header = h]
                  ELSE TunnelInit(NoConn, 0, "NoRequest")]
    /\ conn = [c \in ConnIds |->
                IF c = 1 THEN [ConnInit EXCEPT !.kind = "tcp"] ELSE ConnInit]
    /\ fn = FnIdle

NextServe == \E t \in Tunnels : ServeHTTP(t) \/ ProxyServeHTTP(t) \/ Step(t)

SpecServe == InitServe /\ [][NextServe]_vars

\* two upgrade requests in flight together
SpecTwo == InitTwo /\ [][Next]_vars

\* the Go scheduler runs every goroutine that can run, and a blocked call
\* returns once it can; the peers owe nothing
Fairness ==
    \A t \in Tunnels :
        /\ WF_vars(Handler(t))
        /\ \A d \in Dirs : WF_vars(Pipe(t, d))

FairSpec == Init /\ [][Next]_vars /\ Fairness

----------------------------------------------------------------------------
(* writeSwitchingProtocols and isWebSocketRequest on their own *)

\* a Sec-WebSocket-Protocol field, as the lines that carry it (none: absent)
ClientProtocols ==
    { <<>>, << <<>> >>, <<Chars("chat")>>, <<Chars("superchat")>>,
      <<Chars("chat, superchat")>>, <<Chars("superchat,chat")>>,
      <<Chars("binary")>>, <<Chars("mqtt, chat.v2")>> }

UpstreamProtocols ==
    { <<>>, << <<>> >>, <<Chars("chat")>>, <<Chars("superchat")>>,
      <<Chars("binary")>>, <<Chars("chat.v2")>>, <<Chars("mqtt")>> }

AcceptTokens == { <<>>, << <<>> >>, <<Chars("s3pPLMBiTxaQ9kYGzzhZRbK+xOo=")>> }

UpgradeHeaders ==
    { <<>>, << <<>> >>, <<Chars("websocket")>>, <<Chars("WebSocket")>>,
      <<Chars("WEBSOCKET")>>, <<Chars("websockets")>>, <<Chars("h2c")>>,
      <<Chars("h2c"), Chars("websocket")>> }

ConnectionHeaders ==
    { <<>>, << <<>> >>, <<Chars("Upgrade")>>, <<Chars("upgrade")>>,
      <<Chars("keep-alive, Upgrade")>>, <<Chars("keep-alive")>>,
      <<Chars("close")>>, <<Chars("upgraded")>>,
      <<Chars("keep-alive"), Chars("Upgrade")>> }

InitNoRequests ==
    /\ InitTunnels({}, [t \in Tunnels |-> 0], {"http", "https"})
    /\ verificationHeader = ""

InitProto ==
    /\ InitNoRequests
    /\ \E p \in ClientProtocols, q \in UpstreamProtocols, a \in AcceptTokens :
         fn = [ op |-> "writeSwitchingProtocols",
                clientReq |-> [proto |-> p],
                backendResp |-> [status |-> 101, accept |-> a, proto |-> q],
                done |-> FALSE, err |-> FALSE, out |-> <<>> ]

\* main.go:224-247, the write taken to succeed
WriteSwitchingProtocols ==
    /\ fn.op = "writeSwitchingProtocols"
    /\ ~fn.done
    /\ fn' = [fn EXCEPT
                !.done = TRUE,
                !.err = MissingAccept(fn.backendResp),
                !.out = IF MissingAccept(fn.backendResp)
                        THEN <<>>
                        ELSE SwitchingProtocolsResponse(fn.clientReq, fn.backendResp)]
    /\ UNCHANGED <<target, verificationHeader, tun, conn>>

SpecProto == InitProto /\ [][WriteSwitchingProtocols]_vars

\* the Host of BACKEND_URL
TargetHosts ==
    { Chars("example.com"), Chars("example.com:8443"), Chars("10.0.0.1"),
      Chars("10.0.0.1:9000"), Chars("[::1]"), Chars("[::1]:8080") }

\* the path and the query of the request target
RequestPaths == { Chars("/"), Chars("/chat"), Chars("/a%20b"), Chars("/a%2Fb") }

RequestQueries == { <<>>, Chars("room=1") }

\* the handshake header fields of an inbound upgrade request, each as the
\* lines that carry it
InboundHandshakeHeaders ==
    { [h \in RequestHeaderNames |->
          CASE h = "Connection" -> <<Chars("Upgrade")>>
            [] h = "Upgrade" -> <<Chars("websocket")>>
            [] h = "Sec-WebSocket-Version" -> v
            [] h = "Sec-WebSocket-Key" -> k
            [] h = "Sec-WebSocket-Protocol" -> p
            [] h = "Sec-WebSocket-Extensions" -> e
            [] OTHER -> a] :
        v \in { <<>>, <<Chars("13")>> },
        k \in { <<>>, <<Chars("dGhlIHNhbXBsZSBub25jZQ==")>> },
        p \in { <<>>, << <<>> >>, <<Chars("chat, superchat")>>,
                <<Chars("chat"), Chars("superchat")>> },
        e \in { <<>>, <<Chars("permessage-deflate")>>,
                <<Chars("permessage-deflate"), Chars("x-webkit-deflate-frame")>> },
        a \in { <<>>, << <<>> >>, <<Chars("Bearer abc")>> } }

InitDial ==
    /\ InitNoRequests
    /\ \E host \in TargetHosts, path \in RequestPaths, query \in RequestQueries,
          h \in InboundHandshakeHeaders :
         fn = [ op |-> "dialBackendWebSocket",
                step |-> "url",
                targetHost |-> host,
                target |-> [path |-> path, query |-> query],
                r |-> [URL |-> ParseRequestURI(path, query), Header |-> h],
                u |-> [Scheme |-> "", Host |-> <<>>, Path |-> <<>>, RawQuery |-> <<>>],
                host |-> <<>>,
                req |-> [Method |-> "", URI |-> <<>>, Host |-> <<>>,
                         Header |-> [n \in RequestHeaderNames |-> <<>>]] ]

\* main.go:93-101: handleWebSocket builds the backend URL
BuildBackendURL ==
    /\ fn.op = "dialBackendWebSocket"
    /\ fn.step = "url"
    /\ fn' = [fn EXCEPT !.step = "host",
                        !.u = BackendURL(target, fn.targetHost, fn.r)]
    /\ UNCHANGED <<target, verificationHeader, tun, conn>>

\* main.go:149-159: the address dialBackendWebSocket dials
ResolveAddress ==
    /\ fn.op = "dialBackendWebSocket"
    /\ fn.step = "host"
    /\ fn' = [fn EXCEPT !.step = "request", !.host = DialAddress(fn.u)]
    /\ UNCHANGED <<target, verificationHeader, tun, conn>>

\* main.go:178-207: the upgrade request it sends, the connection given
BuildRequest ==
    /\ fn.op = "dialBackendWebSocket"
    /\ fn.step = "request"
    /\ fn' = [fn EXCEPT !.step = "sent", !.req = UpgradeRequest(fn.u, fn.r)]
    /\ UNCHANGED <<target, verificationHeader, tun, conn>>

SpecDial == InitDial /\ [][BuildBackendURL \/ ResolveAddress \/ BuildRequest]_vars

InitDetect ==
    /\ InitNoRequests
    /\ \E u \in UpgradeHeaders, c \in ConnectionHeaders :
         fn = [ op |-> "isWebSocketRequest", upgrade |-> u, connection |-> c,
                done |-> FALSE, result |-> FALSE ]

\* main.go:60: the handler asks isWebSocketRequest
Detect ==
    /\ fn.op = "isWebSocketRequest"
    /\ ~fn.done
    /\ fn' = [fn EXCEPT !.done = TRUE,
                        !.result = isWebSocketRequest(fn.upgrade, fn.connection)]
    /\ UNCHANGED <<target, verificationHeader, tun, conn>>

SpecDetect == InitDetect /\ [][Detect]_vars

----------------------------------------------------------------------------
(* What the claims speak of *)

IsPrefix(p, s) == Len(p) <= Len(s) /\ SubSeq(s, 1, Len(p)) = p

Requests == {t \in Tunnels : tun[t].pc # "NoRequest"}

\* the state machine of the design notes
TunnelState(t) ==
    CASE tun[t].pc = "Established" -> "UpstreamEstablished"
      [] tun[t].pc = "Hijacked" -> "Hijacked"
      [] tun[t].pc = "Relaying" -> "Relaying"
      [] tun[t].pc = "Returned" -> "Closed"
      [] OTHER -> "Idle"

\* the upstream of t was connected, got the upgrade request and answered 101
UpstreamAnswered101(t) ==
    /\ tun[t].dialConn # NoConn
    /\ conn[tun[t].dialConn].upReq
    /\ conn[tun[t].dialConn].upResp.status = 101

\* dialBackendWebSocket has returned
HandshakeOver(t) == tun[t].pc \in {"Established", "Hijacked", "Relaying", "Returned"}

\* the calls task (or caller) `by` made on connection c, in order, each as
\* <<name, data>>
OpsBy(c, by) ==
    LET ops == conn[c].ops
        F[i \in 0..Len(ops)] ==
            IF i = 0 THEN <<>>
            ELSE IF ops[i][1] = by
                 THEN Append(F[i - 1], <<ops[i][2], ops[i][3]>>)
                 ELSE F[i - 1]
    IN  F[Len(ops)]

\* the payload a peer has sent on c so far
SentOn(c, data) == SubSeq(data, 1, conn[c].sent)

\* C1: the client connection is hijacked, and any byte written to it, only
\* after dialBackendWebSocket returned the upstream leg with its 101; the
\* state Hijacked is entered from UpstreamEstablished only.
C1_HijackOnlyAfterUpstream ==
    /\ [](\A t \in Requests :
            (tun[t].hijacked \/ conn[tun[t].clientConn].out # <<>>) =>
                /\ UpstreamAnswered101(t)
                /\ tun[t].backendConn = tun[t].dialConn
                /\ tun[t].dialErr = "")
    /\ [][\A t \in Tunnels :
            /\ (TunnelState(t)' = "Hijacked" /\ TunnelState(t) # "Hijacked")
                    => TunnelState(t) = "UpstreamEstablished"
            /\ (tun'[t].hijacked /\ ~tun[t].hijacked)
                    => TunnelState(t) = "UpstreamEstablished"]_vars

C1_Witness ==
    \E t \in Requests :
        /\ tun[t].hijacked
        /\ conn[tun[t].clientConn].out # <<>>

\* C2: when the upstream handshake fails (dial, TLS, request write, response
\* read, status other than 101) the caller gets a 502, the client connection
\* is never hijacked and nothing is written to it.
C2_HandshakeFailureIs502 ==
    \A t \in Requests :
        /\ (HandshakeOver(t) /\ ~UpstreamAnswered101(t)) => tun[t].dialErr # ""
        /\ tun[t].dialErr # "" =>
              /\ tun[t].pc = "Returned"
              /\ tun[t].httpStatus = 502
              /\ ~tun[t].hijacked
              /\ tun[t].backendConn = NoConn
              /\ conn[tun[t].clientConn].out = <<>>
              /\ conn[tun[t].clientConn].ops = <<>>

C2_Witness ==
    \E t \in Requests :
        /\ tun[t].dialErr = "status"
        /\ conn[tun[t].dialConn].upResp.status = 404
        /\ tun[t].httpStatus = 502

\* C3: while neither side has closed, what the upstream has received is a
\* prefix of what the client sent behind its request, and what the client
\* has received behind the 101 response is a prefix of what the upstream
\* sent behind its 101 headers.
C3_RelayPreservesBytes ==
    \A t \in Requests :
        LET cc == tun[t].clientConn
            bc == tun[t].backendConn
            resp == <<SwitchingProtocolsText[tun[t].backendResp]>>
        IN  (/\ tun[t].pc = "Relaying"
             /\ ~conn[cc].peerClosed
             /\ ~conn[bc].peerClosed) =>
                /\ IsPrefix(conn[bc].out, SentOn(cc, ClientData))
                /\ IsPrefix(resp, conn[cc].out)
                /\ IsPrefix(SubSeq(conn[cc].out, Len(resp) + 1, Len(conn[cc].out)),
                            SentOn(bc, UpstreamData))

\* C4: once the relay runs and either peer has closed, the handler
\* eventually returns with both tasks finished and both legs closed.
C4_CloseTerminatesTunnel ==
    \A t \in Tunnels :
        (/\ tun[t].pc = "Relaying"
         /\ \/ conn[tun[t].clientConn].peerClosed
            \/ conn[tun[t].backendConn].peerClosed)
        ~> (/\ tun[t].pc = "Returned"
            /\ \A d \in Dirs : tun[t].tpc[d] = "done"
            /\ conn[tun[t].clientConn].closed
            /\ conn[tun[t].backendConn].closed)

C4_Witness ==
    \E t \in Requests :
        /\ tun[t].pc = "Returned"
        /\ \A d \in Dirs : tun[t].tpc[d] = "done"
        /\ conn[tun[t].clientConn].peerClosed
        /\ ~conn[tun[t].backendConn].peerClosed
        /\ conn[tun[t].backendConn].closed

\* C6: when the upstream's 101 carries no accept token (absent or empty),
\* writeSwitchingProtocols fails with the missing-accept error, no relay
\* task starts, nothing is relayed either way, and both legs are closed
\* when handleWebSocket has returned.
C6_MissingAcceptAborts ==
    \A t \in Requests :
        LET cc == tun[t].clientConn
            bc == tun[t].backendConn
            accept == tun[t].backendResp.accept
        IN  (/\ tun[t].hijacked
             /\ tun[t].pc \in {"Relaying", "Returned"}
             /\ (accept = <<>> \/ accept[1] = <<>>)) =>
                /\ tun[t].pc = "Returned"
                /\ tun[t].err = "missing-accept"
                /\ tun[t].tpc = NoTasks
                /\ tun[t].wg = 0
                /\ conn[cc].out = <<>>
                /\ conn[bc].out = <<>>
                /\ conn[cc].closed
                /\ conn[bc].closed

C6_Witness ==
    \E t \in Requests :
        /\ tun[t].pc = "Returned"
        /\ tun[t].err = "missing-accept"
        /\ tun[t].backendResp.accept = << <<>> >>

\* the shutdown sequence of pipe on a destination of the given kind
ShutdownCalls(kind) ==
    << <<"SetWriteDeadline", <<>>>>, <<"Write", CloseFrame>> >>
    \o (IF kind = "tls"
        THEN << <<"TLSClose", <<>>>> >>
        ELSE << <<"CloseWrite", <<>>>>, <<"Close", <<>>>> >>)

\* C8: a pipe task whose copy loop has ended makes, on its destination and
\* in this order, one write of the close frame under a write deadline and
\* then the transport close (TLS close on a TLS destination, otherwise
\* CloseWrite then Close); before that it made payload writes only.
C8_ShutdownSequence ==
    \A t \in Requests : \A d \in Dirs :
        tun[t].tpc[d] # "none" =>
            LET calls == OpsBy(Dst(t, d), d)
                want == ShutdownCalls(conn[Dst(t, d)].kind)
                n == CASE tun[t].tpc[d] = "done" -> Len(want)
                       [] tun[t].tpc[d] = "close" -> 2
                       [] OTHER -> 0
            IN  /\ Len(calls) >= n
                /\ SubSeq(calls, Len(calls) - n + 1, Len(calls)) = SubSeq(want, 1, n)
                /\ \A i \in 1..(Len(calls) - n) :
                      calls[i][1] = "Write" /\ calls[i][2] # CloseFrame

C8_Witness ==
    \E t \in Requests :
        /\ \A d \in Dirs : tun[t].tpc[d] = "done"
        /\ conn[tun[t].backendConn].kind = "tls"
        /\ conn[tun[t].clientConn].kind = "tcp"

\* C9: a relay has exactly two tasks, one per direction, and the handler
\* returns from it only when both have finished their shutdown.
C9_HandlerWaitsForBothTasks ==
    \A t \in Requests :
        /\ tun[t].tpc # NoTasks => tun[t].pc \in {"Relaying", "Returned"}
        /\ tun[t].pc = "Relaying" =>
              /\ \A d \in Dirs : tun[t].tpc[d] # "none"
              /\ tun[t].wg = Cardinality({d \in Dirs : tun[t].tpc[d] # "done"})
        /\ (tun[t].pc = "Returned" /\ tun[t].tpc # NoTasks) =>
              \A d \in Dirs : tun[t].tpc[d] = "done"

C9_Witness ==
    \E t \in Requests :
        /\ tun[t].pc = "Returned"
        /\ \A d \in Dirs : tun[t].tpc[d] = "done"

\* the elements of a comma-separated list, blanks around each removed
RECURSIVE SplitComma(_)
SplitComma(s) ==
    IF \A i \in 1..Len(s) : s[i] # ","
    THEN <<s>>
    ELSE LET i == CHOOSE k \in 1..Len(s) :
                     s[k] = "," /\ \A j \in 1..(k - 1) : s[j] # ","
         IN  <<SubSeq(s, 1, i - 1)>> \o SplitComma(SubSeq(s, i + 1, Len(s)))

RECURSIVE TrimSpace(_)
TrimSpace(s) ==
    IF s # <<>> /\ s[1] = " " THEN TrimSpace(Tail(s))
    ELSE IF s # <<>> /\ s[Len(s)] = " " THEN TrimSpace(SubSeq(s, 1, Len(s) - 1))
    ELSE s

\* the tokens a header field lists, over all its lines
ListTokens(values) ==
    UNION { { TrimSpace(SplitComma(values[k])[i]) : i \in 1..Len(SplitComma(values[k])) }
            : k \in 1..Len(values) } \ { <<>> }

ProtocolLine == Chars("Sec-WebSocket-Protocol: ")

\* C5: the 101 response carries a Sec-WebSocket-Protocol line exactly when
\* the upstream's negotiated value is one of the sub-protocols the client
\* listed, and the line then carries the upstream's value.
C5_ProtocolOnlyIfListed ==
    (fn.op = "writeSwitchingProtocols" /\ fn.done /\ ~fn.err) =>
        LET negotiated == HeaderGet(fn.backendResp.proto)
            agreed == negotiated \in ListTokens(fn.clientReq.proto)
        IN  /\ Contains(fn.out, ProtocolLine) <=> agreed
            /\ agreed => Contains(fn.out, ProtocolLine \o negotiated \o CRLF)

\* C7: isWebSocketRequest is true exactly when Upgrade equals "websocket"
\* and Connection contains the token "upgrade", both without regard to case.
C7_DetectorIffTokens ==
    (fn.op = "isWebSocketRequest" /\ fn.done) =>
        (fn.result <=>
            /\ ToLower(HeaderGet(fn.upgrade)) = Chars("websocket")
            /\ Chars("upgrade") \in ListTokens([k \in 1..Len(fn.connection) |->
                                                  ToLower(fn.connection[k])]))

\* the connections request t holds
Legs(t) == {tun[t].clientConn, tun[t].dialConn} \ {NoConn}

\* a step changes something of request t: its locals, its tasks or one of
\* its connections
Changed(t) == tun'[t] # tun[t] \/ \E c \in Legs(t) : conn'[c] # conn[c]

\* C10: two requests in flight together hold connections of their own (a
\* client leg each, an upstream leg dialed for each), and every step (of a
\* handler, a task or a peer) changes the locals, the tasks and the
\* connections of one request only: none of one request changes the other's.
C10_TunnelsIndependent ==
    /\ [](\A t, u \in Requests :
            t # u => /\ Legs(t) \cap Legs(u) = {}
                     /\ tun[t].dialConn # NoConn => tun[t].dialConn # tun[t].clientConn)
    /\ [][\A t, u \in Tunnels : t # u => ~(Changed(t) /\ Changed(u))]_vars

C10_Witness ==
    /\ tun["t1"].pc = "Returned"
    /\ \A d \in Dirs : tun["t1"].tpc[d] = "done"
    /\ conn[tun["t1"].clientConn].out # <<>>
    /\ tun["t2"].pc = "Relaying"
    /\ \A d \in Dirs : tun["t2"].tpc[d] = "read"
    /\ ~conn[tun["t2"].clientConn].closed
    /\ ~conn[tun["t2"].backendConn].closed

\* C11: when the response writer gives no raw access to the connection, the
\* caller gets a 500 written through the ordinary response writer, the
\* connection is not hijacked, nothing (no 101) is written on it, no relay
\* task starts, and the upstream leg is closed when the handler has returned.
C11_HijackUnsupportedIs500 ==
    \A t \in Requests :
        /\ tun[t].err = "unsupported" =>
              /\ tun[t].pc = "Returned"
              /\ tun[t].httpStatus = 500
              /\ ~tun[t].hijacked
              /\ conn[tun[t].clientConn].ops = <<>>
              /\ conn[tun[t].clientConn].out = <<>>
              /\ tun[t].tpc = NoTasks
              /\ tun[t].backendConn # NoConn
              /\ conn[tun[t].backendConn].closed
        /\ tun[t].httpStatus = 500 => tun[t].err = "unsupported"
        /\ tun[t].hijacked => tun[t].httpStatus = 0

C11_Witness ==
    \E t \in Requests :
        /\ tun[t].err = "unsupported"
        /\ UpstreamAnswered101(t)
        /\ conn[tun[t].backendConn].closed

\* C12: a failure after the hijack (missing accept token, failed write of
\* the 101) ends the tunnel: no status is written through the response
\* writer, no relay task starts and both legs are closed.  On every return
\* of handleWebSocket past the upstream handshake the upstream leg is
\* closed, and the client leg is closed if it was hijacked.
C12_FailureAfterHijackIsTerminal ==
    \A t \in Requests :
        /\ (tun[t].hijacked /\ tun[t].err # "") =>
              /\ tun[t].pc = "Returned"
              /\ tun[t].httpStatus = 0
              /\ tun[t].tpc = NoTasks
              /\ tun[t].wg = 0
              /\ conn[tun[t].clientConn].out = <<>>
              /\ conn[tun[t].clientConn].closed
              /\ conn[tun[t].backendConn].closed
        /\ (tun[t].pc = "Returned" /\ tun[t].backendConn # NoConn) =>
              /\ conn[tun[t].backendConn].closed
              /\ tun[t].hijacked => conn[tun[t].clientConn].closed

C12_Witness ==
    \E t \in Requests :
        /\ tun[t].hijacked
        /\ tun[t].err = "write"
        /\ conn[tun[t].clientConn].closed
        /\ conn[tun[t].backendConn].closed

\* C13: when dialBackendWebSocket fails after net.DialTimeout gave it a
\* connection (TLS handshake, request write, response read, status other
\* than 101), it has closed that connection, as its last call on it, and
\* handleWebSocket holds no upstream connection.
C13_DialFailureClosesConn ==
    \A t \in Requests :
        /\ tun[t].dialErr \in {"tls", "write", "read", "status"} =>
              LET c == tun[t].dialConn IN
              /\ c # NoConn
              /\ conn[c].closed
              /\ conn[c].ops # <<>>
              /\ conn[c].ops[Len(conn[c].ops)] = Op("dial", "Close", <<>>)
              /\ tun[t].backendConn = NoConn
        /\ tun[t].dialErr = "dial" =>
              /\ tun[t].dialConn = NoConn
              /\ tun[t].backendConn = NoConn
        /\ (HandshakeOver(t) /\ tun[t].dialConn # NoConn /\ tun[t].backendConn = NoConn)
              => tun[t].dialErr \in {"tls", "write", "read", "status"}

C13_Witness ==
    \E t \in Requests :
        /\ tun[t].dialErr = "tls"
        /\ conn[tun[t].dialConn].closed
        /\ conn[tun[t].dialConn].kind = "tcp"

\* the order in which handleWebSocket passes through its steps
HandlerOrder ==
    <<"NoRequest", "Serve", "Dial", "TLS", "WriteReq", "ReadResp",
      "Established", "Hijacked", "Relaying", "Returned">>

Rank(pc) == CHOOSE i \in 1..Len(HandlerOrder) : HandlerOrder[i] = pc

\* C15: one request calls net.DialTimeout at most once, and only before any
\* failure; the handler never goes back to an earlier step, so neither the
\* dial nor the TLS handshake nor the upgrade request is attempted again.
C15_AtMostOneDial ==
    /\ [](\A t \in Requests :
            /\ tun[t].dials <= 1
            /\ tun[t].dialConn # NoConn => tun[t].dials = 1)
    /\ [][\A t \in Tunnels :
            /\ tun'[t].dials # tun[t].dials =>
                  /\ tun[t].dials = 0
                  /\ tun[t].dialErr = ""
                  /\ tun[t].err = ""
            /\ tun'[t].pc # tun[t].pc => Rank(tun'[t].pc) > Rank(tun[t].pc)
            /\ (tun[t].dialErr # "" \/ tun[t].err # "") => tun'[t].pc = "Returned"]_vars

C15_Witness ==
    \E t \in Requests :
        /\ tun[t].pc = "Returned"
        /\ tun[t].dialErr = "read"
        /\ tun[t].dials = 1

\* the relay task that writes to leg c of request t
Writer(t, c) == IF c = tun[t].backendConn THEN "c2b" ELSE "b2c"

ClosingCalls == {"Close", "CloseWrite", "TLSClose"}

\* C19: on each leg of a relay the calls of relay tasks are those of one
\* task, the one whose destination the leg is; the close frame is written
\* at most once, when that task's copy has ended with nothing left to
\* write, and no write by anyone follows it; no task writes to a leg after
\* a task has closed it.
C19_CloseFrameOnceSingleWriter ==
    \A t \in Requests :
        tun[t].tpc # NoTasks =>
            \A c \in {tun[t].clientConn, tun[t].backendConn} :
                LET ops == conn[c].ops
                    frames == {i \in 1..Len(ops) :
                                 ops[i][2] = "Write" /\ ops[i][3] = CloseFrame}
                IN  /\ \A i \in 1..Len(ops) :
                          ops[i][1] \in Dirs => ops[i][1] = Writer(t, c)
                    /\ Cardinality(frames) <= 1
                    /\ \A i \in frames :
                          /\ ops[i][1] = Writer(t, c)
                          /\ tun[t].tpc[Writer(t, c)] \in {"close", "done"}
                          /\ tun[t].tbuf[Writer(t, c)] = <<>>
                          /\ \A j \in (i + 1)..Len(ops) : ops[j][2] # "Write"
                    /\ \A i, j \in 1..Len(ops) :
                          (i < j /\ ops[i][1] \in Dirs /\ ops[i][2] \in ClosingCalls)
                              => ~(ops[j][1] \in Dirs /\ ops[j][2] = "Write")

C19_Witness ==
    \E t \in Requests :
        LET out == conn[tun[t].backendConn].out IN
        /\ \A d \in Dirs : tun[t].tpc[d] = "done"
        /\ Len(out) > Len(CloseFrame)
        /\ SubSeq(out, Len(out) - Len(CloseFrame) + 1, Len(out)) = CloseFrame
        /\ conn[tun[t].clientConn].out # <<>>

\* the lines of a message head, each ended by CRLF
RECURSIVE Lines(_)
Lines(ls) == IF ls = <<>> THEN <<>> ELSE Head(ls) \o CRLF \o Lines(Tail(ls))

\* C17: with a non-empty accept token from the upstream, what
\* writeSwitchingProtocols writes is the status line, Upgrade: websocket,
\* Connection: Upgrade and Sec-WebSocket-Accept: with the upstream's token,
\* then at most one Sec-WebSocket-Protocol line, then the empty line, each
\* ended by CRLF, and nothing else.
C17_SwitchingProtocolsBytes ==
    (/\ fn.op = "writeSwitchingProtocols"
     /\ fn.done
     /\ HeaderGet(fn.backendResp.accept) # <<>>) =>
        LET fixed == Lines(<< Chars("HTTP/1.1 101 Switching Protocols"),
                             Chars("Upgrade: websocket"),
                             Chars("Connection: Upgrade"),
                             Chars("Sec-WebSocket-Accept: ")
                                 \o HeaderGet(fn.backendResp.accept) >>)
            rest == SubSeq(fn.out, Len(fixed) + 1, Len(fn.out))
            value == SubSeq(rest, Len(ProtocolLine) + 1, Len(rest) - 2 * Len(CRLF))
        IN  /\ ~fn.err
            /\ IsPrefix(fixed, fn.out)
            /\ \/ rest = CRLF
               \/ /\ rest = ProtocolLine \o value \o CRLF \o CRLF
                  /\ value # <<>>
                  /\ \A i \in 1..Len(value) : value[i] \notin {"\r", "\n"}

C17_Witness ==
    /\ fn.op = "writeSwitchingProtocols"
    /\ fn.done
    /\ ~fn.err
    /\ HeaderGet(fn.backendResp.accept) = Chars("s3pPLMBiTxaQ9kYGzzhZRbK+xOo=")
    /\ Contains(fn.out, ProtocolLine \o Chars("chat.v2") \o CRLF \o CRLF)

\* the request passed the access gate
PassedGate(t) == tun[t].route \in {"tunnel", "proxy"}

\* C14: a request that passed the gate is on exactly one path, the one
\* isWebSocketRequest names, chosen once and before anything else is done
\* for it: on the proxy path it is handed to the reverse proxy (once) and
\* handleWebSocket neither dials nor hijacks; on the tunnel path it is
\* never handed to the reverse proxy, whatever becomes of the tunnel.
C14_ExactlyOnePath ==
    /\ [](\A t \in Requests :
            LET ws == isWebSocketRequest(tun[t].header["Upgrade"],
                                         tun[t].header["Connection"])
            IN  /\ PassedGate(t) => (tun[t].route = "tunnel" <=> ws)
                /\ tun[t].route = "proxy" =>
                      /\ tun[t].pc \in {"Proxy", "Returned"}
                      /\ tun[t].dials = 0
                      /\ tun[t].dialConn = NoConn
                      /\ ~tun[t].hijacked
                      /\ conn[tun[t].clientConn].ops = <<>>
                      /\ tun[t].pc = "Returned" => tun[t].proxied = 1
                /\ tun[t].route = "tunnel" =>
                      /\ tun[t].pc # "Proxy"
                      /\ tun[t].proxied = 0
                      /\ tun[t].pc = "Returned" => tun[t].dials = 1
                /\ tun[t].route = "" =>
                      /\ tun[t].pc = "Arrived"
                      /\ tun[t].dials = 0
                      /\ tun[t].proxied = 0
                      /\ tun[t].httpStatus = 0)
    /\ [][\A t \in Tunnels : tun'[t].route # tun[t].route => tun[t].route = ""]_vars

C14_Witness ==
    \E t \in Requests :
        /\ tun[t].route = "tunnel"
        /\ tun[t].pc = "Returned"
        /\ tun[t].dialErr = "status"
        /\ tun[t].httpStatus = 502
        /\ tun[t].proxied = 0

\* the header the gate asks for is missing from the request of t, or empty
LacksVerification(t) ==
    \/ tun[t].header[verificationHeader] = <<>>
    \/ tun[t].header[verificationHeader][1] = <<>>

\* C16: with a verification header configured, a request without it (or
\* with an empty one) is answered 502 and reaches neither handleWebSocket
\* nor the reverse proxy, and no upstream connection is opened for it;
\* with none configured no request is rejected.
C16_GateRejectsWith502 ==
    \A t \in Requests :
        /\ (verificationHeader # "" /\ LacksVerification(t) /\ tun[t].pc # "Arrived") =>
              /\ tun[t].pc = "Returned"
              /\ tun[t].route = "rejected"
              /\ tun[t].httpStatus = 502
              /\ tun[t].proxied = 0
              /\ tun[t].dials = 0
              /\ tun[t].dialConn = NoConn
              /\ ~tun[t].hijacked
              /\ \A c \in ConnIds \ {tun[t].clientConn} : conn[c] = ConnInit
        /\ verificationHeader = "" => tun[t].route # "rejected"

C16_Witness ==
    \E t \in Requests :
        /\ verificationHeader = "X-Verify"
        /\ tun[t].header["X-Verify"] = << <<>> >>
        /\ isWebSocketRequest(tun[t].header["Upgrade"], tun[t].header["Connection"])
        /\ tun[t].route = "rejected"
        /\ tun[t].httpStatus = 502

\* C18: the request sent to the upstream is a GET for the path and query of
\* the inbound request target, with Connection: Upgrade and Upgrade:
\* websocket, the inbound Sec-WebSocket-Version and Sec-WebSocket-Key
\* values, and each of Sec-WebSocket-Protocol, Sec-WebSocket-Extensions and
\* Authorization exactly as the inbound request has it: absent when it is
\* absent there, otherwise with the value it has there.
C18_SyntheticRequest ==
    (fn.op = "dialBackendWebSocket" /\ fn.step = "sent") =>
        /\ fn.req.Method = "GET"
        /\ fn.req.URI = fn.target.path
                         \o (IF fn.target.query # <<>>
                             THEN <<"?">> \o fn.target.query ELSE <<>>)
        /\ fn.req.Header["Connection"] = <<Chars("Upgrade")>>
        /\ fn.req.Header["Upgrade"] = <<Chars("websocket")>>
        /\ \A h \in {"Sec-WebSocket-Version", "Sec-WebSocket-Key"} :
              HeaderGet(fn.req.Header[h]) = HeaderGet(fn.r.Header[h])
        /\ \A h \in OptionalHeaderNames :
              fn.req.Header[h] = fn.r.Header[h]

\* the position of the colon that starts the port of a URL host, 0 when
\* the host names no port (a colon inside [ ] belongs to the address)
PortColon(host) ==
    LET colons == {i \in 1..Len(host) :
                     host[i] = ":" /\ \A j \in (i + 1)..Len(host) : host[j] \notin {":", "]"}}
    IN  IF colons = {} THEN 0 ELSE CHOOSE i \in colons : TRUE

\* C20: the address dialed is the target's host and port when the target
\* names a port, otherwise its host with :443 for a TLS target and :80 for
\* a plain one.
C20_DialAddress ==
    (fn.op = "dialBackendWebSocket" /\ fn.step \in {"request", "sent"}) =>
        fn.host = IF PortColon(fn.targetHost) # 0
                  THEN fn.targetHost
                  ELSE fn.targetHost
                       \o (IF target = "https" THEN Chars(":443") ELSE Chars(":80"))

====
